---- MODULE Spec2Model ----
(***************************************************************************)
(* The graph model of wallace/models.py: Node, Vector, Info, Transmission, *)
(* Transformation and Network rows and the operations on them, and the     *)
(* sessions, the outbox and the serialized wrapper of dallinger/db.py.     *)
(*                                                                         *)
(* Rows are kept in creation order; a row's uuid is its index.  Times are  *)
(* naturals (the sortable strings of timenow()), None is 0.  An operation  *)
(* is one step from the idle state to a state whose `last` holds the call  *)
(* and its outcome; Return hands control back to the caller.               *)
(***************************************************************************)
EXTENDS Integers, Sequences, FiniteSets, TLC

\* ------------------------------------------------------------------ bounds
MaxVectors == 2
MaxInfos == 2
MaxTrans == 2
MaxTime == 2
MaxMessages == 2

\* ------------------------------------------------------- program constants
None == 0
SerializedAttempts == 100

\* The nodes that exist: an experiment-specific Agent subclass that overrides
\* update, _what and _to_whom, and a plain Source.
Population ==
  << [type |-> "Agent", custom |-> TRUE],
     [type |-> "Source", custom |-> FALSE] >>

\* The texts written to Info.contents.
Texts == {1, 2}

VARIABLES nodes, vectors, infos, transmissions, now, last,
          transformations, sessions, messages, redis, wrapped, txns

vars == <<nodes, vectors, infos, transmissions, now, last,
          transformations, sessions, messages, redis, wrapped, txns>>

\* The state of dallinger/db.py: the sessions of the threads, the messages
\* handed to queue_message, what redis was sent, the calls of serialized
\* functions.
db == <<sessions, messages, redis, wrapped, txns>>

\* The state of wallace/models.py.
graph == <<nodes, vectors, infos, transmissions, now, last, transformations>>

NodeIds == DOMAIN nodes
InfoIds == DOMAIN infos
VectorIds == DOMAIN vectors
TransIds == DOMAIN transmissions

Range(s) == {s[i] : i \in DOMAIN s}

\* ------------------------------------------------------------- exceptions
Ok == "ok"
ErrWriteOnce == "ValueError: The contents of an info is write-once."
ErrWhatNone == "ValueError: Your _what() method cannot return None."
ErrNotOrigin == "ValueError: Cannot transmit because self is not the origin"
ErrToWhomNone == "ValueError: Your _to_whom() method cannot return None."
ErrNotConnected == "ValueError: they are not connected"
ErrNotANode == "ValueError: it is not a Node"
ErrNotAnInfo == "ValueError: it is not an Info"
ErrName == "NameError: global name 'downstream_nodes' is not defined"
ErrNotImplemented == "NotImplementedError"

Idle == [op |-> "idle"]

\* ------------------------------------------------------------------ clock
timenow == now

\* The clock moves on between two calls.
Tick ==
  /\ last = Idle
  /\ now < MaxTime
  /\ now' = now + 1
  /\ UNCHANGED <<db, transformations, nodes, vectors, infos, transmissions, last>>

\* The call returns to its caller.
Return ==
  /\ last # Idle
  /\ last' = Idle
  /\ UNCHANGED <<db, transformations, nodes, vectors, infos, transmissions, now>>

\* ------------------------------------------------------------------- Info
NewInfo(origin, contents) ==
  [type |-> "base", origin_uuid |-> origin, creation_time |-> timenow,
   contents |-> contents]

\* The validator of Info.contents: the value the column takes, or the error.
WriteOnceLax(existing, value) ==
  IF existing # None /\ value # existing
    THEN [exc |-> ErrWriteOnce, val |-> existing]
    ELSE [exc |-> Ok, val |-> value]

WriteOnce(existing, value) ==
  IF existing # None
    THEN [exc |-> ErrWriteOnce, val |-> existing]
    ELSE [exc |-> Ok, val |-> value]

\* Info(origin=node, contents=c): the validator sees the empty column.
CreateInfo(origin, contents) ==
  /\ last = Idle
  /\ Len(infos) < MaxInfos
  /\ LET w == WriteOnce(None, contents) IN
       /\ infos' = Append(infos, NewInfo(origin, w.val))
       /\ last' = [op |-> "create_info", self |-> origin, exc |-> w.exc]
  /\ UNCHANGED <<db, transformations, nodes, vectors, transmissions, now>>

\* info.contents = value
SetContents(i, value) ==
  /\ last = Idle
  /\ LET w == WriteOnce(infos[i].contents, value) IN
       /\ infos' = [infos EXCEPT ![i].contents = w.val]
       /\ last' = [op |-> "set_contents", info |-> i, value |-> value,
                   exc |-> w.exc]
  /\ UNCHANGED <<db, transformations, nodes, vectors, transmissions, now>>

\* ------------------------------------------------------------------- Node
KillStatusOnly(self) ==
  /\ last = Idle
  /\ nodes' = [nodes EXCEPT ![self].status = "dead"]
  /\ last' = [op |-> "kill", self |-> self, exc |-> Ok]
  /\ UNCHANGED <<db, transformations, vectors, infos, transmissions, now>>

\* Node.kill()
Kill(self) ==
  /\ last = Idle
  /\ nodes' = [nodes EXCEPT ![self].status = "dead",
                            ![self].time_of_death = timenow]
  /\ last' = [op |-> "kill", self |-> self, exc |-> Ok]
  /\ UNCHANGED <<db, transformations, vectors, infos, transmissions, now>>

\* Node.fail()
Fail(self) ==
  /\ last = Idle
  /\ nodes' = [nodes EXCEPT ![self].status = "failed",
                            ![self].time_of_death = timenow]
  /\ last' = [op |-> "fail", self |-> self, exc |-> Ok]
  /\ UNCHANGED <<db, transformations, vectors, infos, transmissions, now>>

\* ----------------------------------------------------------------- Vector
NewVectorReversed(origin, destination) ==
  [origin_uuid |-> destination, destination_uuid |-> origin,
   status |-> "alive", time_of_death |-> None]

NewVector(origin, destination) ==
  [origin_uuid |-> origin, destination_uuid |-> destination,
   status |-> "alive", time_of_death |-> None]

\* Node.connect_to(other_node)
ConnectTo(self, other_node) ==
  /\ last = Idle
  /\ Len(vectors) < MaxVectors
  /\ vectors' = Append(vectors, NewVector(self, other_node))
  /\ last' = [op |-> "connect_to", self |-> self, other |-> other_node,
              vector |-> Len(vectors) + 1, exc |-> Ok]
  /\ UNCHANGED <<db, transformations, nodes, infos, transmissions, now>>

\* Node.connect_from(other_node)
ConnectFrom(self, other_node) ==
  /\ last = Idle
  /\ Len(vectors) < MaxVectors
  /\ vectors' = Append(vectors, NewVector(other_node, self))
  /\ last' = [op |-> "connect_from", self |-> self, other |-> other_node,
              vector |-> Len(vectors) + 1, exc |-> Ok]
  /\ UNCHANGED <<db, transformations, nodes, infos, transmissions, now>>

\* Vector.kill()
VectorKill(v) ==
  /\ last = Idle
  /\ vectors' = [vectors EXCEPT ![v].status = "dead",
                                ![v].time_of_death = timenow]
  /\ last' = [op |-> "vector_kill", vector |-> v, exc |-> Ok]
  /\ UNCHANGED <<db, transformations, nodes, infos, transmissions, now>>

\* ------------------------------------------------- the classes of the rows
\* isinstance(node, cls) for cls among Node, Agent, Source.
IsInstance(n, cls) == cls = "Node" \/ nodes[n].type = cls

\* The orders in which a query may return the rows S when it orders them by
\* key, ascending: rows with equal keys come in any order.
Orderings(S, key) ==
  {p \in [1..Cardinality(S) -> S] :
     /\ \A x, y \in DOMAIN p : x # y => p[x] # p[y]
     /\ \A x, y \in DOMAIN p : key[p[x]] < key[p[y]] => x < y}

\* Node.successors: the destinations of the Vectors that leave the node,
\* each node once (the relationship loads entities, one per identity), in
\* no stated order.
Successors(self) ==
  Orderings({vectors[v].destination_uuid :
               v \in {u \in VectorIds : vectors[u].origin_uuid = self}},
            [n \in NodeIds |-> 0])

\* Node.downstream_nodes with the type given: one entry per outgoing Vector.
DownstreamNodes(self, type) ==
  LET out == SelectSeq(vectors, LAMBDA v : v.origin_uuid = self
                                            /\ IsInstance(v.destination_uuid, type))
  IN [exc |-> Ok, val |-> [k \in DOMAIN out |-> out[k].destination_uuid]]

\* Node.predecessors, the backref of successors: the origins of the Vectors
\* that reach the node, each node once, in no stated order.
Predecessors(self) ==
  Orderings({vectors[v].origin_uuid :
               v \in {u \in VectorIds : vectors[u].destination_uuid = self}},
            [n \in NodeIds |-> 0])

\* Node.upstream_nodes with the type given: one entry per incoming Vector,
\* and the entry is the destination of that Vector.
UpstreamNodes(self, type) ==
  LET inc == SelectSeq(vectors, LAMBDA v : v.destination_uuid = self
                                            /\ IsInstance(v.destination_uuid, type))
  IN [exc |-> Ok, val |-> [k \in DOMAIN inc |-> inc[k].destination_uuid]]

\* Node.successors2, had the name it calls been the property of the node.
Successors2ViaDownstream(self) == DownstreamNodes(self, "Agent")

\* Node.successors2: it calls downstream_nodes as a module-level function,
\* and the module defines none.
Successors2(self) == [exc |-> ErrName, val |-> <<>>]

\* Node.has_connection_to(other_node)
HasConnectionTo(self, other_node) ==
  LET s == Successors2(self) IN
    IF s.exc # Ok THEN [exc |-> s.exc, val |-> FALSE]
    ELSE [exc |-> Ok, val |-> other_node \in Range(s.val)]

\* ----------------------------------------------------------- Transmission
NewTransmission(info, destination) ==
  [info_uuid |-> info, destination_uuid |-> destination,
   transmit_time |-> timenow, receive_time |-> None, delivered |-> 0]

\* ------------------------------------------- the arguments of transmit
NoneV == [k |-> "none", id |-> 0, c |-> "", items |-> <<>>]
JunkV == [k |-> "junk", id |-> 0, c |-> "", items |-> <<>>]
ClassV(c) == [k |-> "class", id |-> 0, c |-> c, items |-> <<>>]
InfoV(i) == [k |-> "info", id |-> i, c |-> "", items |-> <<>>]
NodeV(n) == [k |-> "node", id |-> n, c |-> "", items |-> <<>>]
ListV(items) == [k |-> "list", id |-> 0, c |-> "", items |-> items]

IsInfoClass(v) == v.k = "class" /\ v.c = "Info"
IsNodeClass(v) == v.k = "class" /\ v.c \in {"Node", "Agent", "Source"}

\* `x is None or (isinstance(x, list) and None in x)`
IsNoneOrHasNone(v) ==
  \/ v.k = "none"
  \/ v.k = "list" /\ \E j \in DOMAIN v.items : v.items[j].k = "none"

\* Node._what and Node._to_whom, and what a subclass makes of them.
DefaultWhatNone == NoneV

DefaultWhat == ClassV("Info")

DefaultToWhomNone == NoneV

DefaultToWhom == ClassV("Node")

What(self, override) == IF nodes[self].custom THEN override ELSE DefaultWhat

ToWhom(self, override) ==
  IF nodes[self].custom THEN override ELSE DefaultToWhom

\* `what.origin_uuid != self.uuid`
NotOriginNever(self, i) == FALSE

NotOrigin(self, i) == infos[i].origin_uuid # self

\* The Infos of the node, most recent first (the query of a class `what`).
OwnInfos(self) ==
  Orderings({i \in InfoIds : infos[i].origin_uuid = self},
            [i \in InfoIds |-> 0 - infos[i].creation_time])

RaiseStamped(exc, tr) ==
  [exc |-> exc,
   tr |-> [k \in DOMAIN tr |-> [tr[k] EXCEPT !.receive_time = timenow]]]

\* raise: the exception ends the call, the rows stay as they are.
Raise(exc, tr) == [exc |-> exc, tr |-> tr]

RECURSIVE TransmitRun(_, _, _, _, _)
RECURSIVE TransmitWhats(_, _, _, _, _)
RECURSIVE TransmitToWhoms(_, _, _, _, _)

\* for w in what: self.transmit(what=w, to_whom=to_whom)
TransmitWhats(self, whats, to_whom, env, tr) ==
  IF whats = <<>> THEN [exc |-> Ok, tr |-> tr]
  ELSE LET r == TransmitRun(self, Head(whats), to_whom, env, tr) IN
         IF r.exc # Ok THEN r
         ELSE TransmitWhats(self, Tail(whats), to_whom, env, r.tr)

\* for w in to_whom: self.transmit(what=what, to_whom=w)
TransmitToWhoms(self, what, to_whoms, env, tr) ==
  IF to_whoms = <<>> THEN [exc |-> Ok, tr |-> tr]
  ELSE LET r == TransmitRun(self, what, Head(to_whoms), env, tr) IN
         IF r.exc # Ok THEN r
         ELSE TransmitToWhoms(self, what, Tail(to_whoms), env, r.tr)

\* Node.transmit(what, to_whom) on the Transmission rows tr: the exception
\* that ends the call (or Ok) and the rows after it.  env holds what the
\* hooks return and the rows the two queries of this call return.
TransmitRun(self, what, to_whom, env, tr) ==
  IF what.k = "none" THEN
    LET w == What(self, env.what) IN
      IF IsNoneOrHasNone(w) THEN Raise(ErrWhatNone, tr)
      ELSE TransmitRun(self, w, to_whom, env, tr)
  ELSE IF what.k = "list" THEN
    TransmitWhats(self, what.items, to_whom, env, tr)
  ELSE IF IsInfoClass(what) THEN
    TransmitRun(self,
                ListV([k \in DOMAIN env.own |-> InfoV(env.own[k])]),
                to_whom, env, tr)
  ELSE IF what.k = "info" THEN
    IF NotOrigin(self, what.id) THEN Raise(ErrNotOrigin, tr)
    ELSE IF to_whom.k = "none" THEN
      LET w == ToWhom(self, env.to_whom) IN
        IF IsNoneOrHasNone(w) THEN Raise(ErrToWhomNone, tr)
        ELSE TransmitRun(self, what, w, env, tr)
    ELSE IF to_whom.k = "list" THEN
      TransmitToWhoms(self, what, to_whom.items, env, tr)
    ELSE IF IsNodeClass(to_whom) THEN
      LET succ == SelectSeq(env.successors,
                            LAMBDA w : IsInstance(w, to_whom.c))
      IN TransmitRun(self, what,
                     ListV([k \in DOMAIN succ |-> NodeV(succ[k])]), env, tr)
    ELSE IF to_whom.k = "node" THEN
      LET h == HasConnectionTo(self, to_whom.id) IN
        IF h.exc # Ok THEN Raise(h.exc, tr)
        ELSE IF ~h.val THEN Raise(ErrNotConnected, tr)
        ELSE [exc |-> Ok,
              tr |-> Append(tr, NewTransmission(what.id, to_whom.id))]
    ELSE Raise(ErrNotANode, tr)
  ELSE Raise(ErrNotAnInfo, tr)

\* node.transmit(what=what, to_whom=to_whom); what_hook and to_whom_hook are
\* what the node's _what() and _to_whom() return when it overrides them.
Transmit(self, what, to_whom, what_hook, to_whom_hook) ==
  /\ last = Idle
  /\ \E own \in OwnInfos(self), successors \in Successors(self) :
       LET env == [what |-> what_hook, to_whom |-> to_whom_hook,
                   own |-> own, successors |-> successors]
           r == TransmitRun(self, what, to_whom, env, transmissions)
       IN /\ Len(r.tr) <= MaxTrans
          /\ transmissions' = r.tr
          /\ last' = [op |-> "transmit", self |-> self, what |-> what,
                      to_whom |-> to_whom,
                      what_hook |-> What(self, what_hook),
                      to_whom_hook |-> ToWhom(self, to_whom_hook),
                      exc |-> r.exc]
  /\ UNCHANGED <<db, transformations, nodes, vectors, infos, now>>

\* The arguments tried: None, an object of another kind, a class, a row,
\* and the lists of at most two rows.
AtMostTwo(S) ==
  {<<>>} \cup {<<x>> : x \in S} \cup {<<x, y>> : x \in S, y \in S}

WhatArgs ==
  {NoneV, JunkV, ClassV("Info")} \cup {InfoV(i) : i \in InfoIds}
    \cup {ListV(s) : s \in AtMostTwo({InfoV(i) : i \in InfoIds})}

ToWhomArgs ==
  {NoneV, JunkV, ClassV("Node"), ClassV("Agent"), ClassV("Source")}
    \cup {NodeV(n) : n \in NodeIds}
    \cup {ListV(s) : s \in AtMostTwo({NodeV(n) : n \in NodeIds})}

\* What an overriding hook returns; it is consulted only for a None argument.
WhatHooks(self, what) ==
  IF nodes[self].custom /\ what.k = "none"
    THEN {NoneV, ListV(<<NoneV>>), DefaultWhat}
    ELSE {DefaultWhat}

ToWhomHooks(self, to_whom) ==
  IF nodes[self].custom /\ to_whom.k = "none"
    THEN {NoneV, ListV(<<NoneV>>), DefaultToWhom}
    ELSE {DefaultToWhom}

\* ------------------------------------------------------------ receive_all
\* Transmission(info=i, destination=d)
CreateTransmission(i, d) ==
  /\ last = Idle
  /\ Len(transmissions) < MaxTrans
  /\ transmissions' = Append(transmissions, NewTransmission(i, d))
  /\ last' = [op |-> "create_transmission", info |-> i, destination |-> d,
              exc |-> Ok]
  /\ UNCHANGED <<db, transformations, nodes, vectors, infos, now>>

\* Transmission.mark_received() at the time `time`
MarkReceivedLater(t, time) == t

MarkReceived(t, time) == [t EXCEPT !.receive_time = time]

\* Node.pending_transmissions: the rows for the node without a receive
\* time, by transmit time.
PendingTransmissionsAnyReceiveTime(self) ==
  Orderings({t \in TransIds : transmissions[t].destination_uuid = self},
            [t \in TransIds |-> transmissions[t].transmit_time])

PendingTransmissions(self) ==
  Orderings({t \in TransIds :
               /\ transmissions[t].destination_uuid = self
               /\ transmissions[t].receive_time = None},
            [t \in TransIds |-> transmissions[t].transmit_time])

\* Node.update(infos): the hook of Node, Agent and Source raises; the hook
\* of a subclass that overrides it takes the Infos.
Update(self, given) ==
  IF nodes[self].custom THEN Ok ELSE ErrNotImplemented

\* The readings of the clock during the k stampings of one call.
Stamps(k) ==
  {s \in [1..k -> now..MaxTime] : \A x, y \in 1..k : x < y => s[x] <= s[y]}

\* The body of Node.receive_all on the rows `pending`, stamped at the times
\* `stamps`: the rows as update finds them, and the calls of update, each
\* with the rows it is given.
ReceiveAllRunUpdateFirst(pending, stamps) ==
  [at_update |-> transmissions, calls |-> <<pending>>]

ReceiveAllRun(pending, stamps) ==
  [at_update |->
     [t \in DOMAIN transmissions |->
        IF \E k \in DOMAIN pending : pending[k] = t
          THEN MarkReceived(transmissions[t],
                 stamps[CHOOSE k \in DOMAIN pending : pending[k] = t])
          ELSE transmissions[t]],
   calls |-> <<pending>>]

\* How often row t is among the rows given to update in `calls`.
TimesGiven(calls, t) ==
  Cardinality({<<c, k>> \in (DOMAIN calls) \X TransIds :
                 k \in DOMAIN calls[c] /\ calls[c][k] = t})

\* node.receive_all()
ReceiveAll(self) ==
  /\ last = Idle
  /\ \E pending \in PendingTransmissions(self) :
       \E stamps \in Stamps(Len(pending)) :
         LET r == ReceiveAllRun(pending, stamps) IN
           /\ transmissions' =
                [t \in DOMAIN transmissions |->
                   [r.at_update[t] EXCEPT
                      !.delivered = @ + TimesGiven(r.calls, t)]]
           /\ now' = IF pending = <<>> THEN now ELSE stamps[Len(pending)]
           /\ last' =
                [op |-> "receive_all", self |-> self,
                 exc |-> Update(self, <<>>),
                 calls |-> r.calls,
                 infos |-> [c \in DOMAIN r.calls |->
                              [k \in DOMAIN r.calls[c] |->
                                 transmissions[r.calls[c][k]].info_uuid]],
                 unstamped |-> {t \in DOMAIN r.at_update :
                                  /\ r.at_update[t].destination_uuid = self
                                  /\ r.at_update[t].receive_time = None}]
  /\ UNCHANGED <<db, transformations, nodes, vectors, infos>>

\* ------------------------------------------- dallinger/db.py: the sessions
\* The threads of the process; the scoped session gives each its own Session.
Threads == {"t1", "t2"}

Channels == {"a", "b"}

ErrKey == "KeyError: 'outbox'"

\* A Session the registry has just made: no transaction has begun on a
\* connection, session.info is empty.
FreshSession == [begun |-> FALSE, has_outbox |-> FALSE, outbox |-> <<>>]

\* The listener of after_begin.
AfterBegin(s) == [s EXCEPT !.has_outbox = TRUE, !.outbox = <<>>]

\* The listener of after_soft_rollback.
AfterSoftRollbackKeeping(s) == [s EXCEPT !.has_outbox = TRUE]

AfterSoftRollback(s) == [s EXCEPT !.has_outbox = TRUE, !.outbox = <<>>]

\* redis.publish(channel, message): one more delivery of the pair.  Two
\* deliveries and more are counted as 2.
PublishTwice(r, pair) ==
  IF pair \in DOMAIN r THEN [r EXCEPT ![pair] = 2] ELSE r @@ (pair :> 2)

Publish(r, pair) ==
  IF pair \in DOMAIN r THEN [r EXCEPT ![pair] = 2] ELSE r @@ (pair :> 1)

\* The listener of after_commit: it publishes session.info.get('outbox', ())
\* in order and leaves the list as it is.
RECURSIVE AfterCommit(_, _)
AfterCommit(outbox, r) ==
  IF outbox = <<>> THEN r
  ELSE AfterCommit(Tail(outbox), Publish(r, Head(outbox)))

\* The Session after commit() has succeeded: the transaction is over, the
\* listener has not touched session.info.
Committed(s) == [s EXCEPT !.begun = FALSE]

\* session.connection() or the first statement of a transaction: the
\* connection begins its transaction and after_begin fires; later
\* statements of the same transaction begin nothing.
Begun(s) == IF s.begun THEN s ELSE AfterBegin([s EXCEPT !.begun = TRUE])

\* The Session after rollback().
RolledBack(s) == AfterSoftRollback([s EXCEPT !.begun = FALSE])

\* How often message m is published on its channel according to r.
PublishedIn(r, m) ==
  IF <<messages[m].channel, m>> \in DOMAIN r
    THEN r[<<messages[m].channel, m>>] ELSE 0

\* The number of times message m was published on its channel.
Published(m) ==
  IF <<messages[m].channel, m>> \in DOMAIN redis
    THEN redis[<<messages[m].channel, m>>] ELSE 0

\* The messages thread t handed over in its current transaction learn how
\* the transaction ended.
Settle(msgs, t, fate) ==
  [k \in DOMAIN msgs |->
     IF msgs[k].thread = t /\ msgs[k].fate = "open"
       THEN [msgs[k] EXCEPT !.fate = fate] ELSE msgs[k]]

\* A statement of thread t reaches the database for the first time in the
\* transaction.
SessionConnection(t) ==
  /\ wrapped[t].pc = "idle"
  /\ ~sessions[t].begun
  /\ sessions' = [sessions EXCEPT ![t] = Begun(@)]
  /\ UNCHANGED <<messages, redis, wrapped, txns, graph>>

QueueMessageShared(t, channel) ==
  /\ wrapped[t].pc \in {"idle", "func"}
  /\ Len(messages) < MaxMessages
  /\ LET m == Len(messages) + 1
         found == sessions[t].has_outbox
     IN /\ messages' = Append(messages,
                              [thread |-> t, channel |-> channel,
                               fate |-> "open",
                               exc |-> IF found THEN Ok ELSE ErrKey])
        /\ sessions' = IF found
                         THEN [u \in Threads |->
                                 [sessions[u] EXCEPT
                                    !.outbox = Append(@, <<channel, m>>)]]
                         ELSE sessions
  /\ UNCHANGED <<redis, wrapped, txns, graph>>

\* queue_message(channel, message) in thread t; the message is the next
\* unused one.
QueueMessage(t, channel) ==
  /\ wrapped[t].pc \in {"idle", "func"}
  /\ Len(messages) < MaxMessages
  /\ LET m == Len(messages) + 1
         found == sessions[t].has_outbox
     IN /\ messages' = Append(messages,
                              [thread |-> t, channel |-> channel,
                               fate |-> "open",
                               exc |-> IF found THEN Ok ELSE ErrKey])
        /\ sessions' = IF found
                         THEN [sessions EXCEPT
                                 ![t].outbox = Append(@, <<channel, m>>)]
                         ELSE sessions
  /\ UNCHANGED <<redis, wrapped, txns, graph>>

\* session.commit() in thread t, and it succeeds.
Commit(t) ==
  /\ wrapped[t].pc = "idle"
  /\ redis' = AfterCommit(sessions[t].outbox, redis)
  /\ sessions' = [sessions EXCEPT ![t] = Committed(@)]
  /\ messages' = Settle(messages, t, "committed")
  /\ UNCHANGED <<wrapped, txns, graph>>

\* session.rollback() in thread t.
Rollback(t) ==
  /\ wrapped[t].pc = "idle"
  /\ sessions' = [sessions EXCEPT ![t] = RolledBack(@)]
  /\ messages' = Settle(messages, t, "rolled_back")
  /\ UNCHANGED <<redis, wrapped, txns, graph>>

\* session.remove() in thread t: the Session is closed and forgotten, the
\* next use of the registry makes a new one.
Remove(t) ==
  /\ wrapped[t].pc = "idle"
  /\ sessions' = [sessions EXCEPT ![t] = FreshSession]
  /\ messages' = Settle(messages, t, "rolled_back")
  /\ UNCHANGED <<redis, wrapped, txns, graph>>

\* ----------------------------------- dallinger/db.py: sessions_scope
ErrOperational == "OperationalError"
ErrOther == "Exception raised by the function"

\* What the body of a with-block does: it returns, or it raises one of
\* these exceptions.  What commit() does when it is called: it returns, or
\* it raises.
BodyEnds == {Ok, ErrOperational, ErrOther}
CommitEnds == {Ok, ErrOperational}

\* What one method of the Session, called in thread t, does to the Session
\* of the thread, to redis and to the messages; commit() ends as commit_exc
\* says, and a commit that raises has lost the transaction and fired no
\* listener.
SessionCall(st, t, call, commit_exc) ==
  CASE call = "commit" /\ commit_exc = Ok ->
         [session |-> Committed(st.session),
          redis |-> AfterCommit(st.session.outbox, st.redis),
          messages |-> Settle(st.messages, t, "committed")]
    [] call = "commit" /\ commit_exc # Ok ->
         [st EXCEPT !.session.begun = FALSE,
                    !.messages = Settle(@, t, "rolled_back")]
    [] call = "rollback" ->
         [st EXCEPT !.session = RolledBack(@),
                    !.messages = Settle(@, t, "rolled_back")]
    [] call = "remove" ->
         [st EXCEPT !.session = FreshSession,
                    !.messages = Settle(@, t, "rolled_back")]

RECURSIVE SessionCalls(_, _, _, _)
SessionCalls(st, t, calls, commit_exc) ==
  IF calls = <<>> THEN st
  ELSE SessionCalls(SessionCall(st, t, Head(calls), commit_exc), t,
                    Tail(calls), commit_exc)

\* sessions_scope(local_session, commit) from the end of the body on: the
\* methods of the Session it calls, in order, and the exception that leaves
\* the with-block, if any.
SessionsScopeRunCommitAlways(commit, body, commit_exc) ==
  IF body # Ok THEN [calls |-> <<"rollback", "remove">>, exc |-> body]
  ELSE IF commit_exc # Ok
    THEN [calls |-> <<"commit", "rollback", "remove">>, exc |-> commit_exc]
  ELSE [calls |-> <<"commit", "remove">>, exc |-> Ok]

SessionsScopeRun(commit, body, commit_exc) ==
  IF body # Ok THEN [calls |-> <<"rollback", "remove">>, exc |-> body]
  ELSE IF ~commit THEN [calls |-> <<"remove">>, exc |-> Ok]
  ELSE IF commit_exc # Ok
    THEN [calls |-> <<"commit", "rollback", "remove">>, exc |-> commit_exc]
  ELSE [calls |-> <<"commit", "remove">>, exc |-> Ok]

\* A with-block of sessions_scope ends in thread t; the statements of its
\* body were the steps of the thread since the Session was made.
ScopeExit(t, op, commit, body, commit_exc) ==
  /\ last = Idle
  /\ wrapped[t].pc = "idle"
  /\ LET run == SessionsScopeRun(commit, body, commit_exc)
         st == SessionCalls([session |-> sessions[t], redis |-> redis,
                             messages |-> messages],
                            t, run.calls, commit_exc)
     IN /\ sessions' = [sessions EXCEPT ![t] = st.session]
        /\ redis' = st.redis
        /\ messages' = st.messages
        /\ last' = [op |-> op, thread |-> t, commit |-> commit,
                    body |-> body, commit_exc |-> commit_exc,
                    calls |-> run.calls, exc |-> run.exc]
  /\ UNCHANGED <<wrapped, txns, transformations, nodes, vectors, infos,
                 transmissions, now>>

\* with sessions_scope(session, commit): ...
SessionsScope(t, commit, body, commit_exc) ==
  ScopeExit(t, "sessions_scope", commit, body, commit_exc)

\* A function wrapped by scoped_session_decorator ends: the with-block of
\* the wrapper was entered without commit.
ScopedSessionDecorator(t, body) ==
  ScopeExit(t, "scoped_session_decorator", FALSE, body, Ok)

\* ------------------------------------------ dallinger/db.py: serialized
ErrFatal == "Exception: Could not commit serialized transaction after 100 attempts."

\* How an attempt ends: the function returns and the commit succeeds; the
\* function raises a serialization conflict; the function returns and the
\* commit raises one; an OperationalError of another origin, or an exception
\* of another class, is raised.
Outcomes == {"return", "conflict", "commit_conflict", "operational", "other"}

IsConflict(outcome) == outcome \in {"conflict", "commit_conflict"}

\* No serialized function is running in the thread.
NoCall ==
  [pc |-> "idle", attempts |-> 0, runs |-> 0, commits |-> 0,
   outcome |-> "", result |-> None, exc |-> Ok]

\* The except clause of the wrapper, entered with an OperationalError: the
\* attempts left and the exception that leaves the wrapper, if any.
ExceptOperationalErrorReraise(attempts, conflict) ==
  [attempts |-> attempts, exc |-> ErrOperational]

ExceptOperationalErrorNoCount(attempts, conflict) ==
  IF conflict THEN [attempts |-> attempts, exc |-> Ok]
  ELSE [attempts |-> attempts, exc |-> ErrOperational]

ExceptOperationalErrorRetryAll(attempts, conflict) ==
  IF attempts > 0
    THEN [attempts |-> attempts - 1, exc |-> Ok]
    ELSE [attempts |-> attempts, exc |-> ErrFatal]

ExceptOperationalError(attempts, conflict) ==
  IF conflict
    THEN IF attempts > 0
           THEN [attempts |-> attempts - 1, exc |-> Ok]
           ELSE [attempts |-> attempts, exc |-> ErrFatal]
    ELSE [attempts |-> attempts, exc |-> ErrOperational]

\* The wrapper is called in thread t: attempts = 100.
SerializedCall(t) ==
  /\ wrapped[t].pc = "idle"
  /\ wrapped' = [wrapped EXCEPT ![t] =
                 [NoCall EXCEPT !.pc = "loop", !.attempts = SerializedAttempts]]
  /\ UNCHANGED <<sessions, messages, redis, txns, graph>>

\* The loop test holds: session.connection(...) is called, sessions_scope
\* is entered and the function starts.
SerializedBegin(t) ==
  /\ wrapped[t].pc = "loop"
  /\ wrapped[t].attempts > 0
  /\ sessions' = [sessions EXCEPT ![t] = Begun(@)]
  /\ wrapped' = [wrapped EXCEPT ![t].pc = "func", ![t].runs = @ + 1]
  /\ UNCHANGED <<messages, redis, txns, graph>>

\* The function ends: sessions_scope commits, or rolls back and re-raises,
\* and removes the session; the except clause of the wrapper handles what
\* was raised.
SerializedEnd(t, outcome) ==
  /\ wrapped[t].pc = "func"
  /\ LET c == wrapped[t]
         h == ExceptOperationalError(c.attempts, IsConflict(outcome))
     IN /\ redis' = IF outcome = "return"
                      THEN AfterCommit(Committed(sessions[t]).outbox, redis)
                      ELSE redis
        /\ messages' = Settle(messages, t,
                              IF outcome = "return" THEN "committed"
                              ELSE "rolled_back")
        /\ wrapped' = [wrapped EXCEPT ![t] =
             IF outcome = "return"
               THEN [c EXCEPT !.pc = "returned", !.outcome = outcome,
                              !.commits = @ + 1, !.result = c.runs]
             ELSE IF outcome = "other"
               THEN [c EXCEPT !.pc = "raised", !.outcome = outcome,
                              !.exc = ErrOther]
             ELSE IF h.exc # Ok
               THEN [c EXCEPT !.pc = "raised", !.outcome = outcome,
                              !.exc = h.exc]
             ELSE [c EXCEPT !.pc = "loop", !.outcome = outcome,
                            !.attempts = h.attempts]]
  /\ sessions' = [sessions EXCEPT ![t] = FreshSession]
  /\ UNCHANGED <<txns, graph>>

\* The loop test fails: the wrapper falls off its end and returns None.
SerializedExhausted(t) ==
  /\ wrapped[t].pc = "loop"
  /\ ~(wrapped[t].attempts > 0)
  /\ wrapped' = [wrapped EXCEPT ![t].pc = "returned", ![t].result = None]
  /\ UNCHANGED <<sessions, messages, redis, txns, graph>>

\* The caller goes on after the wrapper has returned or raised.
SerializedReturn(t) ==
  /\ wrapped[t].pc \in {"returned", "raised"}
  /\ wrapped' = [wrapped EXCEPT ![t] = NoCall]
  /\ UNCHANGED <<sessions, messages, redis, txns, graph>>

\* ------------------------- receive_all inside a serialized transaction
\* No receive_all is running in a transaction of the thread.
NoTxn == [node |-> None, start |-> {}, pending |-> <<>>, seen |-> <<>>,
          stamps |-> <<>>]

\* The store refuses the writes of a serializable transaction when a row
\* it updates is no longer as the transaction read it: another transaction
\* has committed a change of that row in the meantime.
StoreConflict(x) ==
  \E k \in DOMAIN x.pending : transmissions[x.pending[k]] # x.seen[k]

\* serialized(node.receive_all)() is called in thread t: attempts = 100.
\* `start` keeps the rows that are pending for the node at the call.
SerializedReceiveAllCall(t, node) ==
  /\ wrapped[t].pc = "idle"
  /\ txns[t] = NoTxn
  /\ wrapped' = [wrapped EXCEPT ![t] =
                 [NoCall EXCEPT !.pc = "loop", !.attempts = SerializedAttempts]]
  /\ txns' = [txns EXCEPT ![t] =
                [NoTxn EXCEPT !.node = node,
                              !.start = {r \in TransIds :
                                 /\ transmissions[r].destination_uuid = node
                                 /\ transmissions[r].receive_time = None}]]
  /\ UNCHANGED <<sessions, messages, redis, graph>>

\* The loop test holds and the attempt runs receive_all up to the call of
\* update: the transaction begins, pending_transmissions reads the rows as
\* they are committed, and the rows are stamped in the transaction, all at
\* one reading of the clock.
SerializedReceiveAllBegin(t) ==
  /\ wrapped[t].pc = "loop"
  /\ wrapped[t].attempts > 0
  /\ txns[t].node # None
  /\ \E pending \in PendingTransmissions(txns[t].node) :
       txns' = [txns EXCEPT ![t].pending = pending,
                            ![t].seen = [k \in DOMAIN pending |->
                                           transmissions[pending[k]]],
                            ![t].stamps = [k \in DOMAIN pending |-> timenow]]
  /\ sessions' = [sessions EXCEPT ![t] = Begun(@)]
  /\ wrapped' = [wrapped EXCEPT ![t].pc = "func", ![t].runs = @ + 1]
  /\ UNCHANGED <<messages, redis, graph>>

\* The attempt ends.  The stamps reach the store when the Infos are loaded
\* for update or at the commit: refused, they make the attempt end with a
\* conflict, which the except clause of the wrapper handles.  Otherwise
\* update is called with the Infos; when it raises, sessions_scope rolls
\* back, and when it returns, sessions_scope commits the stamps.
SerializedReceiveAllEnd(t) ==
  /\ wrapped[t].pc = "func"
  /\ txns[t].node # None
  /\ LET c == wrapped[t]
         x == txns[t]
         h == ExceptOperationalError(c.attempts, TRUE)
         r == ReceiveAllRun(x.pending, x.stamps)
         exc == Update(x.node, x.pending)
     IN IF StoreConflict(x)
          THEN /\ wrapped' = [wrapped EXCEPT ![t] =
                    IF h.exc # Ok
                      THEN [c EXCEPT !.pc = "raised", !.outcome = "conflict",
                                     !.exc = h.exc]
                      ELSE [c EXCEPT !.pc = "loop", !.outcome = "conflict",
                                     !.attempts = h.attempts]]
               /\ UNCHANGED transmissions
        ELSE IF exc # Ok
          THEN /\ wrapped' = [wrapped EXCEPT ![t] =
                    [c EXCEPT !.pc = "raised", !.outcome = "other",
                              !.exc = exc]]
               /\ UNCHANGED transmissions
        ELSE /\ wrapped' = [wrapped EXCEPT ![t] =
                  [c EXCEPT !.pc = "returned", !.outcome = "return",
                            !.commits = @ + 1, !.result = c.runs]]
             /\ transmissions' =
                  [k \in DOMAIN transmissions |->
                     [r.at_update[k] EXCEPT
                        !.delivered = @ + TimesGiven(r.calls, k)]]
  /\ sessions' = [sessions EXCEPT ![t] = FreshSession]
  /\ txns' = [txns EXCEPT ![t].pending = <<>>, ![t].seen = <<>>,
                          ![t].stamps = <<>>]
  /\ UNCHANGED <<messages, redis, transformations, nodes, vectors, infos,
                 now, last>>

\* The caller goes on after the wrapper has returned or raised.
SerializedReceiveAllReturn(t) ==
  /\ wrapped[t].pc \in {"returned", "raised"}
  /\ txns[t].node # None
  /\ wrapped' = [wrapped EXCEPT ![t] = NoCall]
  /\ txns' = [txns EXCEPT ![t] = NoTxn]
  /\ UNCHANGED <<sessions, messages, redis, graph>>

InitDb ==
  /\ sessions = [t \in Threads |-> FreshSession]
  /\ messages = <<>>
  /\ redis = <<>>
  /\ wrapped = [t \in Threads |-> NoCall]
  /\ txns = [t \in Threads |-> NoTxn]

\* ------------------------------------------------------------------- Init
Init ==
  /\ nodes = [k \in DOMAIN Population |->
                [type |-> Population[k].type,
                 custom |-> Population[k].custom,
                 creation_time |-> 1,
                 status |-> "alive",
                 time_of_death |-> None,
                 network_uuid |-> None]]
  /\ vectors = <<>>
  /\ infos = <<>>
  /\ transmissions = <<>>
  /\ now = 1
  /\ last = Idle
  /\ transformations = <<>>
  /\ InitDb

\* ------------------------------------------- building the graph, transmit
NextTransmit ==
  \/ last = Idle /\ \E o \in NodeIds : CreateInfo(o, 1)
  \/ last = Idle /\ \E a, b \in NodeIds : ConnectTo(a, b)
  \/ last = Idle /\ \E a, b \in NodeIds : ConnectFrom(a, b)
  \/ last = Idle /\ \E a \in NodeIds, w \in WhatArgs, t \in ToWhomArgs :
       \E wh \in WhatHooks(a, w), th \in ToWhomHooks(a, t) :
         Transmit(a, w, t, wh, th)
  \/ Return

SpecTransmit == Init /\ [][NextTransmit]_vars

\* ---------------------------------------------- the claims about transmit
\* The step is a call of transmit.
TransmitCalled == last = Idle /\ last'.op = "transmit"

HasVector(a, b) ==
  \E v \in VectorIds :
    vectors[v].origin_uuid = a /\ vectors[v].destination_uuid = b

OwnInfoSet(a) == {i \in InfoIds : infos[i].origin_uuid = a}

SuccessorSet(a) ==
  {vectors[v].destination_uuid :
     v \in {u \in VectorIds : vectors[u].origin_uuid = a}}

\* The Transmission rows the step added.
Created == SubSeq(transmissions', Len(transmissions) + 1, Len(transmissions'))

NothingCreated == transmissions' = transmissions

\* The step added one row, of Info i to node d, and changed no other row.
CreatedOne(i, d) ==
  /\ Len(transmissions') = Len(transmissions) + 1
  /\ SubSeq(transmissions', 1, Len(transmissions)) = transmissions
  /\ transmissions'[Len(transmissions')].info_uuid = i
  /\ transmissions'[Len(transmissions')].destination_uuid = d

NoRepeat(s) == \A x, y \in DOMAIN s : x # y => s[x] # s[y]

ReturnsNone(v) ==
  \/ v.k = "none"
  \/ v.k = "list" /\ \E j \in DOMAIN v.items : v.items[j].k = "none"

\* The Infos `what` stands for, and the nodes `to_whom` stands for, when
\* the call names them by row, list of rows, class or default policy.
WhatInfos(a, w, hook) ==
  IF w.k = "info" THEN {w.id}
  ELSE IF w.k = "list" THEN {w.items[j].id : j \in DOMAIN w.items}
  ELSE IF w.k = "class" /\ w.c = "Info" THEN OwnInfoSet(a)
  ELSE IF w.k = "none" /\ hook.k = "class" /\ hook.c = "Info"
    THEN OwnInfoSet(a)
  ELSE {}

ClassNodes(a, c) == {n \in SuccessorSet(a) : c = "Node" \/ nodes[n].type = c}

ToWhomNodes(a, t, hook) ==
  IF t.k = "node" THEN {t.id}
  ELSE IF t.k = "list" THEN {t.items[j].id : j \in DOMAIN t.items}
  ELSE IF t.k = "class" THEN ClassNodes(a, t.c)
  ELSE IF t.k = "none" /\ hook.k = "class" THEN ClassNodes(a, hook.c)
  ELSE {}

\* The Infos and the nodes the call of this step resolves to.
CallInfos == WhatInfos(last'.self, last'.what, last'.what_hook)

CallNodes == ToWhomNodes(last'.self, last'.to_whom, last'.to_whom_hook)

C3_TransmitAfterConnect ==
  [][(/\ TransmitCalled
      /\ last'.what.k = "info" /\ last'.to_whom.k = "node"
      /\ infos[last'.what.id].origin_uuid = last'.self
      /\ HasVector(last'.self, last'.to_whom.id))
       => (/\ last'.exc = Ok
           /\ CreatedOne(last'.what.id, last'.to_whom.id))]_vars

\* C4: when no Vector from A to B exists and A is the origin of Info i,
\* A.transmit(what=i, to_whom=B) fails with the not-connected error and adds
\* no Transmission.
C4_NotConnected ==
  [][(/\ TransmitCalled
      /\ last'.what.k = "info" /\ last'.to_whom.k = "node"
      /\ infos[last'.what.id].origin_uuid = last'.self
      /\ ~HasVector(last'.self, last'.to_whom.id))
       => (last'.exc = ErrNotConnected /\ NothingCreated)]_vars

\* C5: A.transmit(what=i, ...) for an Info row i whose origin is not A fails
\* with the not-the-origin error, whatever to_whom is, and adds no
\* Transmission.
C5_NotOrigin ==
  [][(/\ TransmitCalled
      /\ last'.what.k = "info"
      /\ infos[last'.what.id].origin_uuid # last'.self)
       => (last'.exc = ErrNotOrigin /\ NothingCreated)]_vars

\* Another node's Info was refused although a Vector leads to the named
\* destination.
C5_Witness ==
  /\ last.op = "transmit"
  /\ last.what.k = "info"
  /\ infos[last.what.id].origin_uuid # last.self
  /\ last.to_whom.k = "node"
  /\ HasVector(last.self, last.to_whom.id)
  /\ last.exc = ErrNotOrigin

C16_TransmitToClass ==
  [][(/\ TransmitCalled
      /\ last'.what.k = "info"
      /\ last'.what.id \in OwnInfoSet(last'.self)
      /\ last'.to_whom.k = "class")
       => (/\ last'.exc = Ok
           /\ SubSeq(transmissions', 1, Len(transmissions)) = transmissions
           /\ Len(Created) = Cardinality(ClassNodes(last'.self, last'.to_whom.c))
           /\ \A k \in DOMAIN Created :
                /\ Created[k].info_uuid = last'.what.id
                /\ Created[k].destination_uuid
                     \in ClassNodes(last'.self, last'.to_whom.c)
                /\ Created[k].receive_time = None
           /\ \A d \in ClassNodes(last'.self, last'.to_whom.c) :
                \E k \in DOMAIN Created : Created[k].destination_uuid = d)]_vars

\* C26: a transmit call with the class Info as `what` and a node the caller
\* has a Vector to as `to_whom` succeeds and adds one Transmission for each
\* Info whose origin is the caller and for no other Info, the Transmission
\* of a more recent Info before that of an older one.
C26_ClassWhatSendsOwnInfos ==
  [][(/\ TransmitCalled
      /\ IsInfoClass(last'.what)
      /\ last'.to_whom.k = "node"
      /\ HasVector(last'.self, last'.to_whom.id))
       => (/\ last'.exc = Ok
           /\ SubSeq(transmissions', 1, Len(transmissions)) = transmissions
           /\ Len(Created) = Cardinality(OwnInfoSet(last'.self))
           /\ \A i \in OwnInfoSet(last'.self) :
                \E k \in DOMAIN Created : Created[k].info_uuid = i
           /\ \A k \in DOMAIN Created :
                /\ Created[k].info_uuid \in OwnInfoSet(last'.self)
                /\ Created[k].destination_uuid = last'.to_whom.id
           /\ \A j, k \in DOMAIN Created :
                j < k => infos[Created[j].info_uuid].creation_time
                           >= infos[Created[k].info_uuid].creation_time)]_vars

\* The errors transmit raises for an argument it refuses.
RefusalErrors == {ErrNotOrigin, ErrNotConnected, ErrNotANode, ErrNotAnInfo}

NextDeadVector ==
  \/ last = Idle /\ \E o \in NodeIds : CreateInfo(o, 1)
  \/ last = Idle /\ \E a, b \in NodeIds : ConnectTo(a, b)
  \/ last = Idle /\ \E v \in VectorIds : VectorKill(v)
  \/ last = Idle /\ \E a \in NodeIds,
                       w \in {InfoV(i) : i \in InfoIds},
                       t \in {NodeV(n) : n \in NodeIds} \cup {ClassV("Node")} :
       \E wh \in WhatHooks(a, w), th \in ToWhomHooks(a, t) :
         Transmit(a, w, t, wh, th)
  \/ Return

SpecDeadVector == Init /\ [][NextDeadVector]_vars

\* An alive Vector leads from a to b.
HasAliveVector(a, b) ==
  \E v \in VectorIds : /\ vectors[v].origin_uuid = a
                       /\ vectors[v].destination_uuid = b
                       /\ vectors[v].status = "alive"

Sources == {n \in NodeIds : nodes[n].type = "Source"}

NextReceive ==
  \/ last = Idle /\ \E o \in Sources : CreateInfo(o, 1)
  \/ last = Idle /\ \E i \in InfoIds, d \in NodeIds : CreateTransmission(i, d)
  \/ last = Idle /\ \E n \in NodeIds : ReceiveAll(n)
  \/ Tick
  \/ Return

SpecReceive == Init /\ [][NextReceive]_vars

\* The step is a call of receive_all.
ReceiveAllCalled == last = Idle /\ last'.op = "receive_all"

\* The rows for node n that have no receive time.
Unreceived(n) ==
  {t \in TransIds : /\ transmissions[t].destination_uuid = n
                    /\ transmissions[t].receive_time = None}

\* C8: for a node whose update hook works, after a receive_all call every
\* Transmission for the node has been given to update exactly once in all
\* the calls so far, and the call gives update no Transmission that an
\* earlier call gave it: a second call in a row gives it none.
C8_DeliveredOnce ==
  [][(ReceiveAllCalled /\ nodes[last'.self].custom)
       => \A t \in TransIds :
            transmissions[t].destination_uuid = last'.self
              => /\ transmissions'[t].delivered = 1
                 /\ transmissions[t].delivered >= 1
                      => TimesGiven(last'.calls, t) = 0]_vars

\* A receive_all call that follows one which delivered: update got an
\* empty list.
C8_Witness ==
  /\ last.op = "receive_all"
  /\ nodes[last.self].custom
  /\ last.exc = Ok
  /\ last.infos = << <<>> >>
  /\ \E t \in TransIds : /\ transmissions[t].destination_uuid = last.self
                         /\ transmissions[t].delivered = 1

\* C9: one receive_all call stamps a receive time on every Transmission for
\* the node that had none and on no other, and calls update once, when all
\* of them are stamped, with the Infos of exactly those Transmissions in
\* ascending order of transmit time.
C9_StampThenUpdateOnce ==
  [][ReceiveAllCalled
       => /\ \A t \in TransIds :
               IF t \in Unreceived(last'.self)
                 THEN transmissions'[t].receive_time # None
                 ELSE transmissions'[t].receive_time
                        = transmissions[t].receive_time
          /\ Len(last'.calls) = 1
          /\ last'.unstamped = {}
          /\ Len(last'.calls[1]) = Cardinality(Unreceived(last'.self))
          /\ Range(last'.calls[1]) = Unreceived(last'.self)
          /\ \A x, y \in DOMAIN last'.calls[1] :
               x < y => transmissions[last'.calls[1][x]].transmit_time
                          <= transmissions[last'.calls[1][y]].transmit_time
          /\ last'.infos[1] = [k \in DOMAIN last'.calls[1] |->
                                 transmissions[last'.calls[1][k]].info_uuid]]_vars

\* A call delivered two Transmissions sent at different times, of different
\* Infos.
C9_Witness ==
  /\ last.op = "receive_all"
  /\ Len(last.calls) = 1
  /\ Len(last.calls[1]) = 2
  /\ transmissions[last.calls[1][1]].transmit_time
       < transmissions[last.calls[1][2]].transmit_time
  /\ last.infos[1][1] # last.infos[1][2]

\* C34: every Transmission a receive_all call selects had no receive time,
\* has one when update is called and keeps it when update raises; the call
\* gives update no Transmission that an earlier call gave it, whether that
\* earlier update raised or not, so that no Transmission is ever given to
\* update twice.  The update of a node that does not override it raises.
C34_AtMostOnceWhenUpdateRaises ==
  [][ReceiveAllCalled
       => /\ last'.unstamped = {}
          /\ \A t \in TransIds :
               TimesGiven(last'.calls, t) > 0
                 => /\ transmissions[t].receive_time = None
                    /\ transmissions[t].delivered = 0
                    /\ transmissions'[t].receive_time # None
                    /\ transmissions'[t].delivered = 1
          /\ \A t \in TransIds :
               transmissions'[t].destination_uuid = last'.self
                 => transmissions'[t].receive_time # None
          /\ ~nodes[last'.self].custom => last'.exc = ErrNotImplemented]_vars

\* The update of the node raised in an earlier receive_all call that had
\* given it a Transmission; the next call for the node gave update nothing.
C34_Witness ==
  /\ last.op = "receive_all"
  /\ last.exc = ErrNotImplemented
  /\ last.calls = << <<>> >>
  /\ \E t \in TransIds : /\ transmissions[t].destination_uuid = last.self
                         /\ transmissions[t].delivered = 1
                         /\ transmissions[t].receive_time # None

\* --------------------------------------------- what transmit leaves alone
NextFrame ==
  \/ last = Idle /\ \E o \in Sources : CreateInfo(o, 1)
  \/ last = Idle /\ \E a \in Sources, b \in NodeIds : ConnectTo(a, b)
  \/ last = Idle /\ \E i \in InfoIds, d \in NodeIds : CreateTransmission(i, d)
  \/ last = Idle /\ \E a \in NodeIds,
                       w \in {InfoV(i) : i \in InfoIds} \cup {ClassV("Info")},
                       t \in {NodeV(n) : n \in NodeIds} \cup {ClassV("Node")} :
       \E wh \in WhatHooks(a, w), th \in ToWhomHooks(a, t) :
         Transmit(a, w, t, wh, th)
  \/ Return

SpecFrame == Init /\ [][NextFrame]_vars

\* C27: a transmit step, whether it returns or raises, leaves every Node,
\* Vector, Info and Transformation and every Transmission that existed as
\* it was (receive time and deliveries to update included), and every
\* Transmission it adds has no receive time and was given to no update.
C27_TransmitFrame ==
  [][TransmitCalled
       => /\ nodes' = nodes
          /\ vectors' = vectors
          /\ infos' = infos
          /\ transformations' = transformations
          /\ SubSeq(transmissions', 1, Len(transmissions)) = transmissions
          /\ \A k \in DOMAIN Created : /\ Created[k].receive_time = None
                                       /\ Created[k].delivered = 0]_vars

\* A node transmitted while a Transmission to it was waiting to be received.
C27_Witness ==
  /\ last.op = "transmit"
  /\ \E t \in TransIds : /\ transmissions[t].destination_uuid = last.self
                         /\ transmissions[t].receive_time = None
  /\ \E v \in VectorIds : vectors[v].origin_uuid = last.self

\* ------------------------------------------- the life of nodes and vectors
NextLife ==
  \/ last = Idle /\ \E n \in NodeIds : Kill(n)
  \/ last = Idle /\ \E n \in NodeIds : Fail(n)
  \/ last = Idle /\ \E a, b \in NodeIds : ConnectTo(a, b)
  \/ last = Idle /\ \E v \in VectorIds : VectorKill(v)
  \/ Tick
  \/ Return

SpecLife == Init /\ [][NextLife]_vars

\* C10: kill() on an alive node sets its status to dead and its
\* time_of_death to the time of the call; kill() on a node that is already
\* dead changes neither.
C10_SecondKillNoOp ==
  [][(last = Idle /\ last'.op = "kill")
       => /\ nodes[last'.self].status = "alive"
               => /\ nodes'[last'.self].status = "dead"
                  /\ nodes'[last'.self].time_of_death = now
          /\ nodes[last'.self].status = "dead"
               => /\ nodes'[last'.self].status = "dead"
                  /\ nodes'[last'.self].time_of_death
                       = nodes[last'.self].time_of_death]_vars

\* C11: fail() on a node that was killed raises an error and leaves the
\* node's status dead and its time_of_death as it was.
C11_FailAfterKillRaises ==
  [][(last = Idle /\ last'.op = "fail" /\ nodes[last'.self].status = "dead")
       => /\ last'.exc # Ok
          /\ nodes'[last'.self].status = "dead"
          /\ nodes'[last'.self].time_of_death
               = nodes[last'.self].time_of_death]_vars

\* C12: a node that is dead or failed keeps its status and its time_of_death
\* in every step; the time_of_death of an alive node changes only in the
\* step that takes the node out of alive.
C12_OneWay ==
  [][\A n \in NodeIds :
       /\ nodes[n].status # "alive"
            => /\ nodes'[n].status = nodes[n].status
               /\ nodes'[n].time_of_death = nodes[n].time_of_death
       /\ (nodes[n].status = "alive" /\ nodes'[n].status = "alive")
            => nodes'[n].time_of_death = nodes[n].time_of_death]_vars

\* C35: in every state reached by kill() and fail() on nodes and kill() on
\* Vectors, in any order and any number of times, a Node has no time of
\* death exactly when its status is alive, and so has a Vector.
C35_TimeOfDeathIffNotAlive ==
  /\ \A n \in NodeIds :
       (nodes[n].time_of_death = None) <=> (nodes[n].status = "alive")
  /\ \A v \in VectorIds :
       (vectors[v].time_of_death = None) <=> (vectors[v].status = "alive")

\* One node has failed and the other is alive; one Vector is dead and
\* another alive.
C35_Witness ==
  /\ last.op = "fail"
  /\ nodes[last.self].status = "failed"
  /\ nodes[last.self].time_of_death # None
  /\ \E n \in NodeIds : nodes[n].status = "alive"
  /\ \E v, w \in VectorIds : /\ vectors[v].status = "dead"
                             /\ vectors[v].time_of_death # None
                             /\ vectors[w].status = "alive"

\* ---------------------------------------------------------------- degrees
\* node.outgoing_vectors, the backref of Vector.origin: the Vector rows whose
\* origin is the node, whatever their status.
OutgoingVectorsAlive(self) ==
  SelectSeq([v \in VectorIds |-> v],
            LAMBDA v : vectors[v].origin_uuid = self
                         /\ vectors[v].status = "alive")

OutgoingVectors(self) ==
  SelectSeq([v \in VectorIds |-> v], LAMBDA v : vectors[v].origin_uuid = self)

\* node.incoming_vectors, the backref of Vector.destination.
IncomingVectors(self) ==
  SelectSeq([v \in VectorIds |-> v],
            LAMBDA v : vectors[v].destination_uuid = self)

\* Node.outdegree and Node.indegree of an instance.
Outdegree(self) == Len(OutgoingVectors(self))

Indegree(self) == Len(IncomingVectors(self))

NextDegree ==
  \/ last = Idle /\ \E a, b \in NodeIds : ConnectTo(a, b)
  \/ last = Idle /\ \E a, b \in NodeIds : ConnectFrom(a, b)
  \/ last = Idle /\ \E v \in VectorIds : VectorKill(v)
  \/ Return

SpecDegree == Init /\ [][NextDegree]_vars

\* The Vectors in state that leave n, and those that arrive at n.
VectorsFrom(n) == {v \in VectorIds : vectors[v].origin_uuid = n}

VectorsInto(n) == {v \in VectorIds : vectors[v].destination_uuid = n}

ConnectCalled == last = Idle /\ last'.op \in {"connect_to", "connect_from"}

\* C28: a.connect_to(b) and a.connect_from(b) return without raising, for
\* every a and b (a = b and pairs already connected included); the step adds
\* exactly one Vector and changes no other, the Vector it adds is the one
\* returned, it is alive with no time of death, and it leads from a to b
\* for connect_to and from b to a for connect_from.
C28_ConnectAddsOneVector ==
  [][ConnectCalled
       => /\ last'.exc = Ok
          /\ Len(vectors') = Len(vectors) + 1
          /\ SubSeq(vectors', 1, Len(vectors)) = vectors
          /\ last'.vector = Len(vectors')
          /\ vectors'[last'.vector].status = "alive"
          /\ vectors'[last'.vector].time_of_death = None
          /\ vectors'[last'.vector].origin_uuid =
               IF last'.op = "connect_to" THEN last'.self ELSE last'.other
          /\ vectors'[last'.vector].destination_uuid =
               IF last'.op = "connect_to" THEN last'.other ELSE last'.self
          /\ UNCHANGED <<nodes, infos, transmissions>>]_vars

\* A node was connected to itself a second time: two distinct self-loops
\* exist on it, and the second is the Vector returned.
C28_Witness ==
  /\ last.op = "connect_to"
  /\ last.self = last.other
  /\ \E v \in VectorIds : /\ v # last.vector
                          /\ vectors[v].origin_uuid = last.self
                          /\ vectors[v].destination_uuid = last.self
                          /\ vectors[v].status = "alive"

\* C24: in every state and for all nodes a and b, a.has_connection_to(b)
\* returns, and what it returns is true exactly when some Vector, alive or
\* dead, has origin a and destination b.
C24_HasConnectionToIsBoolean ==
  \A a, b \in NodeIds :
    /\ HasConnectionTo(a, b).exc = Ok
    /\ HasConnectionTo(a, b).val <=> HasVector(a, b)

\* C39: in every state and for every node n, n.upstream_nodes returns, and
\* the nodes in it are the origins of the Vectors, alive or dead, whose
\* destination is n, which are the nodes of n.predecessors; and
\* n.downstream_nodes returns, and the nodes in it are the destinations of
\* the Vectors whose origin is n, which are the nodes of n.successors.
C39_UpstreamDownstream ==
  \A n \in NodeIds :
    LET up == UpstreamNodes(n, "Node")
        down == DownstreamNodes(n, "Node")
    IN /\ up.exc = Ok
       /\ Range(up.val) = {vectors[v].origin_uuid : v \in VectorsInto(n)}
       /\ \A p \in Predecessors(n) : Range(p) = Range(up.val)
       /\ down.exc = Ok
       /\ Range(down.val) = {vectors[v].destination_uuid : v \in VectorsFrom(n)}
       /\ \A q \in Successors(n) : Range(q) = Range(down.val)

\* ---------------------------------------------------------------- Network
\* The networks that exist.
Networks == {1, 2}

\* The nodes of the experiments on networks: two Agents, the one with the
\* first uuid created last, and a Source.
NetworkPopulation ==
  << [type |-> "Agent", creation_time |-> 2],
     [type |-> "Agent", creation_time |-> 1],
     [type |-> "Source", creation_time |-> 1] >>

InitNetwork ==
  /\ nodes = [k \in DOMAIN NetworkPopulation |->
                [type |-> NetworkPopulation[k].type,
                 custom |-> FALSE,
                 creation_time |-> NetworkPopulation[k].creation_time,
                 status |-> "alive",
                 time_of_death |-> None,
                 network_uuid |-> None]]
  /\ vectors = <<>>
  /\ infos = <<>>
  /\ transmissions = <<>>
  /\ now = 2
  /\ last = Idle
  /\ transformations = <<>>
  /\ InitDb

CreationTimes == [n \in NodeIds |-> nodes[n].creation_time]

\* Network.agents: the orders in which the query may return its rows.
NetworkAgentsWithDead(self) ==
  Orderings({n \in NodeIds : /\ IsInstance(n, "Agent")
                             /\ nodes[n].status # "failed"
                             /\ nodes[n].network_uuid = self},
            CreationTimes)

NetworkAgentsUnordered(self) ==
  Orderings({n \in NodeIds : /\ IsInstance(n, "Agent")
                             /\ nodes[n].status # "failed"
                             /\ nodes[n].network_uuid = self
                             /\ nodes[n].status # "dead"},
            [n \in NodeIds |-> 0])

NetworkAgents(self) ==
  Orderings({n \in NodeIds : /\ IsInstance(n, "Agent")
                             /\ nodes[n].status # "failed"
                             /\ nodes[n].network_uuid = self
                             /\ nodes[n].status # "dead"},
            CreationTimes)

\* Network.sources
NetworkSources(self) ==
  Orderings({n \in NodeIds : /\ IsInstance(n, "Source")
                             /\ nodes[n].network_uuid = self},
            CreationTimes)

\* Network.nodes: self.sources + self.agents
NetworkAllNodes(self) ==
  {srcs \o agts : srcs \in NetworkSources(self), agts \in NetworkAgents(self)}

\* Network.get_degrees(), the query of self.agents having returned agents.
GetDegreesRunIndegree(agents) == [k \in DOMAIN agents |-> Indegree(agents[k])]

GetDegreesRun(agents) == [k \in DOMAIN agents |-> Outdegree(agents[k])]

GetDegrees(self) ==
  /\ last = Idle
  /\ \E agents \in NetworkAgents(self) :
       last' = [op |-> "get_degrees", self |-> self, agents |-> agents,
                ret |-> GetDegreesRun(agents), exc |-> Ok]
  /\ UNCHANGED <<db, transformations, nodes, vectors, infos, transmissions, now>>

\* Network.add_agent(agent)
AddAgent(self, agent) ==
  /\ last = Idle
  /\ nodes' = [nodes EXCEPT ![agent].network_uuid = self]
  /\ last' = [op |-> "add_agent", self |-> self, agent |-> agent,
              ret |-> <<>>, exc |-> Ok]
  /\ UNCHANGED <<db, transformations, vectors, infos, transmissions, now>>

\* Network.add_source_global(source): one connect_to per agent of the
\* network, then source.network = self, then vector.network = self through
\* the association proxy, which assigns vector.origin.network.
AddSourceGlobal(self, source) ==
  /\ last = Idle
  /\ \E agents \in NetworkAgents(self) :
       /\ Len(vectors) + Len(agents) <= MaxVectors
       /\ vectors' = vectors \o [k \in DOMAIN agents |->
                                   NewVector(source, agents[k])]
       /\ nodes' = [nodes EXCEPT ![source].network_uuid = self]
       /\ last' = [op |-> "add_source_global", self |-> self,
                   source |-> source, agents |-> agents,
                   ret |-> [k \in DOMAIN agents |-> Len(vectors) + k],
                   exc |-> Ok]
  /\ UNCHANGED <<db, transformations, infos, transmissions, now>>

\* Network.add_source_local(source, agent): source.network = self, one
\* connect_to, then vector.network = self through the association proxy,
\* which assigns vector.origin.network.  The agent is used as it is given.
AddSourceLocal(self, source, agent) ==
  /\ last = Idle
  /\ Len(vectors) < MaxVectors
  /\ vectors' = Append(vectors, NewVector(source, agent))
  /\ nodes' = [nodes EXCEPT ![source].network_uuid = self]
  /\ last' = [op |-> "add_source_local", self |-> self, source |-> source,
              agent |-> agent, ret |-> <<Len(vectors) + 1>>, exc |-> Ok]
  /\ UNCHANGED <<db, transformations, infos, transmissions, now>>

NetworkNodes(type) == {n \in NodeIds : nodes[n].type = type}

NextNetwork ==
  \/ last = Idle /\ \E net \in Networks, a \in NetworkNodes("Agent") :
       AddAgent(net, a)
  \/ last = Idle /\ \E net \in Networks, s \in NetworkNodes("Source") :
       AddSourceGlobal(net, s)
  \/ last = Idle /\ \E net \in Networks : GetDegrees(net)
  \/ last = Idle /\ \E n \in NodeIds : Kill(n)
  \/ last = Idle /\ \E n \in NodeIds : Fail(n)
  \/ Return

SpecNetwork == InitNetwork /\ [][NextNetwork]_vars

\* The Vector rows the step added.
CreatedVectors == {v \in DOMAIN vectors' : v > Len(vectors)}

\* C14: add_source_global(source) on a network adds one Vector from the
\* source to each alive Agent that is a member of the network before the
\* call and no other Vector, changes no Vector that existed, makes the
\* source a member of the network and changes no other node, and returns
\* the Vectors it added, each once.
C14_AddSourceGlobal ==
  [][(last = Idle /\ last'.op = "add_source_global")
       => LET net == last'.self
              s == last'.source
              members == {a \in NodeIds : /\ nodes[a].type = "Agent"
                                          /\ nodes[a].network_uuid = net
                                          /\ nodes[a].status = "alive"}
          IN /\ last'.exc = Ok
             /\ SubSeq(vectors', 1, Len(vectors)) = vectors
             /\ \A v \in CreatedVectors :
                  /\ vectors'[v].origin_uuid = s
                  /\ vectors'[v].destination_uuid \in members
                  /\ vectors'[v].status = "alive"
             /\ \A a \in members :
                  Cardinality({v \in CreatedVectors :
                                 vectors'[v].destination_uuid = a}) = 1
             /\ nodes'[s].network_uuid = net
             /\ \A n \in NodeIds \ {s} : nodes'[n] = nodes[n]
             /\ Range(last'.ret) = CreatedVectors
             /\ Len(last'.ret) = Cardinality(CreatedVectors)]_vars

\* A source was added to a network of which one Agent is an alive member
\* and the other a dead one: one Vector was returned.
C14_Witness ==
  /\ last.op = "add_source_global"
  /\ Len(last.ret) = 1
  /\ \E a \in NodeIds : /\ nodes[a].type = "Agent"
                        /\ nodes[a].network_uuid = last.self
                        /\ nodes[a].status = "dead"
  /\ nodes[vectors[last.ret[1]].destination_uuid].status = "alive"

\* The network has the two Agents as its agents, and the Vectors are the two
\* that add_source_global(s) made for it.
AfterAddSourceGlobal(net) ==
  /\ \A a \in NetworkNodes("Agent") : /\ nodes[a].network_uuid = net
                                      /\ nodes[a].status = "alive"
  /\ Len(vectors) = 2
  /\ \E s \in NetworkNodes("Source") :
       /\ nodes[s].network_uuid = net
       /\ \A a \in NetworkNodes("Agent") :
            \E v \in VectorIds : /\ vectors[v].origin_uuid = s
                                 /\ vectors[v].destination_uuid = a

\* C15 as stated: in a network of two agents and no other Vectors, after
\* add_source_global(s), get_degrees() returns [1, 1].
C15_DegreesOneOne ==
  [][(last = Idle /\ last'.op = "get_degrees"
        /\ AfterAddSourceGlobal(last'.self))
       => last'.ret = <<1, 1>>]_vars

\* C15: in a network of two agents and no other Vectors, after
\* add_source_global(s) two Vectors exist and get_degrees() returns [0, 0],
\* the outdegrees of the agents; their indegrees are 1 and 1.
C15_DegreesZeroZero ==
  [][(last = Idle /\ last'.op = "get_degrees"
        /\ AfterAddSourceGlobal(last'.self))
       => /\ last'.ret = <<0, 0>>
          /\ \A a \in NetworkNodes("Agent") : Indegree(a) = 1]_vars

C15_Witness ==
  /\ last.op = "get_degrees"
  /\ AfterAddSourceGlobal(last.self)
  /\ Len(last.ret) = 2

\* The list p is in ascending order of creation time and names no node
\* twice.
AscendingCreation(p) ==
  \A x, y \in DOMAIN p :
    x < y => /\ p[x] # p[y]
             /\ nodes[p[x]].creation_time <= nodes[p[y]].creation_time

AliveAgentsOf(net) ==
  {a \in NodeIds : /\ nodes[a].type = "Agent"
                   /\ nodes[a].network_uuid = net
                   /\ nodes[a].status = "alive"}

AgentsAsClaimed(net) ==
  \A p \in NetworkAgents(net) :
    Range(p) = AliveAgentsOf(net) /\ AscendingCreation(p)

\* C22: before and after every step, the agents of every network are the
\* Agents that are members of it and alive, each once, in ascending order
\* of creation time; an Agent that is dead or failed before a step is in no
\* network's agents after it.
C22_AgentsAliveMembersInOrder ==
  [][\A net \in Networks :
       /\ AgentsAsClaimed(net)
       /\ AgentsAsClaimed(net)'
       /\ \A a \in NodeIds :
            nodes[a].status # "alive"
              => \A p \in NetworkAgents(net)' : a \notin Range(p)]_vars

\* An Agent of a network was failed while the other Agent, created before
\* it, is an alive member of the same network.
C22_Witness ==
  /\ last.op = "fail"
  /\ nodes[last.self].type = "Agent"
  /\ nodes[last.self].network_uuid \in Networks
  /\ \E p \in NetworkAgents(nodes[last.self].network_uuid) :
       /\ Len(p) = 1
       /\ nodes[p[1]].creation_time < nodes[last.self].creation_time

\* C23: in every state, the sources of every network are the Sources that
\* are members of it and not failed, in ascending order of creation time,
\* and no failed Source is among the nodes of the network.
C23_SourcesNotFailed ==
  \A net \in Networks :
    /\ \A p \in NetworkSources(net) :
         /\ Range(p) = {n \in NodeIds : /\ nodes[n].type = "Source"
                                        /\ nodes[n].network_uuid = net
                                        /\ nodes[n].status # "failed"}
         /\ AscendingCreation(p)
    /\ \A q \in NetworkAllNodes(net) :
         \A k \in DOMAIN q :
           ~(nodes[q[k]].type = "Source" /\ nodes[q[k]].status = "failed")

\* ------------------------------------------- the sources of a network
NextSources ==
  \/ last = Idle /\ \E net \in Networks, a \in NetworkNodes("Agent") :
       AddAgent(net, a)
  \/ last = Idle /\ \E net \in Networks, s \in NetworkNodes("Source") :
       AddSourceGlobal(net, s)
  \/ last = Idle /\ \E net \in Networks, s \in NetworkNodes("Source"),
                       a \in NetworkNodes("Agent") : AddSourceLocal(net, s, a)
  \/ Return

SpecSources == InitNetwork /\ [][NextSources]_vars

\* C32: after add_source_global or add_source_local on a network, the
\* origin and the destination of every Vector returned are members of that
\* network; add_source_local(source, agent) adds exactly one Vector, it
\* leads from source to agent, and it is the one returned.
C32_ReturnedVectorsInsideNetwork ==
  [][(last = Idle /\ last'.op \in {"add_source_global", "add_source_local"})
       => LET c == last'
          IN /\ \A k \in DOMAIN c.ret :
                  /\ nodes'[vectors'[c.ret[k]].origin_uuid].network_uuid = c.self
                  /\ nodes'[vectors'[c.ret[k]].destination_uuid].network_uuid
                       = c.self
             /\ c.op = "add_source_local"
                  => /\ CreatedVectors = {c.ret[1]}
                     /\ Len(c.ret) = 1
                     /\ vectors'[c.ret[1]].origin_uuid = c.source
                     /\ vectors'[c.ret[1]].destination_uuid = c.agent]_vars

\* -------------------------------------------------------- Agent.replicate
\* The classes of Info: Info itself and a subclass of an experiment.
InfoTypes == {"base", "meme"}

\* info_type(origin=node, contents=c) for a class of Info.
NewInfoOf(type, origin, contents) ==
  [NewInfo(origin, contents) EXCEPT !.type = type]

CreateInfoOf(type, origin, contents) ==
  /\ last = Idle
  /\ Len(infos) < MaxInfos
  /\ LET w == WriteOnce(None, contents) IN
       /\ infos' = Append(infos, NewInfoOf(type, origin, w.val))
       /\ last' = [op |-> "create_info", self |-> origin, exc |-> w.exc]
  /\ UNCHANGED <<db, transformations, nodes, vectors, transmissions, now>>

\* The Info replicate makes: type(info_in)(origin=self,
\* contents=info_in.contents).
InfoOutOfSameOrigin(self, info_in) ==
  NewInfoOf(infos[info_in].type, infos[info_in].origin_uuid,
            WriteOnce(None, infos[info_in].contents).val)

InfoOut(self, info_in) ==
  NewInfoOf(infos[info_in].type, self,
            WriteOnce(None, infos[info_in].contents).val)

\* Replication(info_out=..., info_in=..., node=...): a Transformation row
\* of the three.
Replication(info_out, info_in, node) ==
  [type |-> "replication", node_uuid |-> node, info_in_uuid |-> info_in,
   info_out_uuid |-> info_out, transform_time |-> timenow]

\* Agent.replicate(info_in)
Replicate(self, info_in) ==
  /\ last = Idle
  /\ Len(infos) < MaxInfos
  /\ infos' = Append(infos, InfoOut(self, info_in))
  /\ transformations' =
       Append(transformations, Replication(Len(infos) + 1, info_in, self))
  /\ last' = [op |-> "replicate", self |-> self, info_in |-> info_in,
              exc |-> Ok]
  /\ UNCHANGED <<db, nodes, vectors, transmissions, now>>

NextReplicate ==
  \/ last = Idle /\ \E ty \in InfoTypes, o \in NodeIds, c \in Texts \cup {None} :
       CreateInfoOf(ty, o, c)
  \/ last = Idle /\ \E a \in NodeIds, i \in InfoIds :
       nodes[a].type = "Agent" /\ Replicate(a, i)
  \/ Tick
  \/ Return

SpecReplicate == Init /\ [][NextReplicate]_vars

\* C17: a replicate(i1) step of an agent adds exactly one Info, of the type
\* of i1, with the contents of i1 and the agent as origin, and exactly one
\* Transformation, with input i1, output the new Info and the agent as
\* node; i1 and every other Info and Transformation stay as they were.
C17_Replicate ==
  [][(last = Idle /\ last'.op = "replicate")
       => LET i1 == last'.info_in
              i2 == Len(infos) + 1
              t == Len(transformations) + 1
          IN /\ last'.exc = Ok
             /\ DOMAIN infos' = 1..i2
             /\ \A i \in InfoIds : infos'[i] = infos[i]
             /\ infos'[i2].type = infos[i1].type
             /\ infos'[i2].contents = infos[i1].contents
             /\ infos'[i2].origin_uuid = last'.self
             /\ DOMAIN transformations' = 1..t
             /\ \A k \in DOMAIN transformations :
                  transformations'[k] = transformations[k]
             /\ transformations'[t].info_in_uuid = i1
             /\ transformations'[t].info_out_uuid = i2
             /\ transformations'[t].node_uuid = last'.self]_vars

\* The agent replicated an Info of a subclass that another node had made.
C17_Witness ==
  /\ last.op = "replicate"
  /\ infos[last.info_in].origin_uuid # last.self
  /\ infos[last.info_in].type = "meme"
  /\ infos[last.info_in].contents # None
  /\ Len(transformations) = 1

\* ------------------------------------------------- Info.contents alone
NextInfo ==
  \/ last = Idle /\ \E o \in NodeIds, c \in Texts \cup {None} : CreateInfo(o, c)
  \/ last = Idle /\ \E i \in InfoIds, v \in Texts \cup {None} : SetContents(i, v)
  \/ Return

SpecInfo == Init /\ [][NextInfo]_vars

\* C1: once the contents of an Info is not None, an assignment to it (of any
\* value, the same value and None included) raises the write-once error and
\* leaves the contents as it was.
C1_WriteOnce ==
  [][(last'.op = "set_contents" /\ last = Idle
        /\ infos[last'.info].contents # None)
       => (last'.exc = ErrWriteOnce /\ infos' = infos)]_vars

\* A second write of the same text was refused.
C1_Witness ==
  /\ last.op = "set_contents"
  /\ last.exc = ErrWriteOnce
  /\ infos[last.info].contents = last.value

\* ------------------------------------------- sessions and their outboxes
NextOutbox ==
  \/ \E t \in Threads : SessionConnection(t)
  \/ \E t \in Threads, ch \in Channels : QueueMessage(t, ch)
  \/ \E t \in Threads : Commit(t)
  \/ \E t \in Threads : Rollback(t)
  \/ \E t \in Threads : Remove(t)

SpecOutbox == Init /\ [][NextOutbox]_vars

\* C20: a message that queue_message accepted in a transaction is not
\* published while the transaction is open, and once the transaction has
\* committed it has been published exactly once, whether it was queued
\* before or after the first statement of the transaction and whatever
\* commits follow.
C20_PublishedOnceAfterCommit ==
  \A m \in DOMAIN messages :
    messages[m].exc = Ok
      => /\ messages[m].fate = "open" => Published(m) = 0
         /\ messages[m].fate = "committed" => Published(m) = 1

\* C21: a message that queue_message accepted in a transaction that was
\* rolled back, or whose session was removed before a commit, has not been
\* published, in the state after the rollback and in every later state.
C21_RolledBackNeverPublished ==
  \A m \in DOMAIN messages :
    (messages[m].exc = Ok /\ messages[m].fate = "rolled_back")
      => Published(m) = 0

\* A message was rolled back, and a later message of the same thread was
\* committed and published.
C21_Witness ==
  \E m, n \in DOMAIN messages :
    /\ m < n
    /\ messages[m].thread = messages[n].thread
    /\ messages[m].exc = Ok
    /\ messages[m].fate = "rolled_back"
    /\ messages[n].fate = "committed"
    /\ Published(n) = 1

\* The messages that were published once more in the step.
NewlyPublished ==
  {m \in DOMAIN messages : PublishedIn(redis', m) > PublishedIn(redis, m)}

\* C38: the outbox of a thread's session holds messages of that thread
\* only; a step that publishes is the commit of one session, it publishes
\* the outbox of that session and so no message of another thread; and a
\* step that changes the session of one thread (a begin, a rollback, a
\* commit, a remove, a queue_message) leaves the session of every other
\* thread, its outbox included, as it was.
C38_OutboxesIsolated ==
  [][/\ \A t \in Threads : \A k \in DOMAIN sessions[t].outbox :
          messages[sessions[t].outbox[k][2]].thread = t
     /\ redis' # redis
          => \E t \in Threads :
               /\ redis' = AfterCommit(sessions[t].outbox, redis)
               /\ \A m \in NewlyPublished : messages[m].thread = t
               /\ \A u \in Threads \ {t} : sessions'[u] = sessions[u]
     /\ \A t, u \in Threads :
          (t # u /\ sessions'[t] # sessions[t]) => sessions'[u] = sessions[u]
    ]_vars

\* Both threads had queued a message; one has committed and its message is
\* published, the other's is still in its own outbox, unpublished.
C38_Witness ==
  \E m, n \in DOMAIN messages :
    /\ messages[m].thread # messages[n].thread
    /\ messages[m].fate = "committed" /\ Published(m) = 1
    /\ messages[n].fate = "open" /\ messages[n].exc = Ok
    /\ Published(n) = 0
    /\ <<messages[n].channel, n>>
         \in Range(sessions[messages[n].thread].outbox)

\* ------------------------------------------------------ sessions_scope
NextScope ==
  \/ last = Idle /\ \E t \in Threads : SessionConnection(t)
  \/ last = Idle /\ \E t \in Threads, ch \in Channels : QueueMessage(t, ch)
  \/ \E t \in Threads, commit \in BOOLEAN, body \in BodyEnds,
        commit_exc \in CommitEnds : SessionsScope(t, commit, body, commit_exc)
  \/ \E t \in Threads, body \in BodyEnds : ScopedSessionDecorator(t, body)
  \/ Return

SpecScope == Init /\ [][NextScope]_vars

\* The step is the end of a with-block of sessions_scope.
ScopeCalled ==
  last = Idle /\ last'.op \in {"sessions_scope", "scoped_session_decorator"}

\* The messages of thread t whose transaction is open.
OpenMessages(t) ==
  {m \in DOMAIN messages : messages[m].thread = t /\ messages[m].fate = "open"}

\* C29: when a with-block of sessions_scope ends, commit() is called exactly
\* when commit was asked for and the body raised nothing; the work of the
\* block is committed and its messages published only when that commit
\* succeeded; when the body or the commit raised, rollback() is called and
\* the same exception leaves the block, and otherwise none does; and in
\* every case the last call is remove() and the thread has a new Session.
C29_ScopeCommitsRollsBackRemoves ==
  [][ScopeCalled
       => LET c == last'
              called(m) == m \in Range(c.calls)
              raised == IF c.body # Ok THEN c.body
                        ELSE IF c.commit THEN c.commit_exc ELSE Ok
          IN /\ called("commit") <=> (c.commit /\ c.body = Ok)
             /\ called("rollback") <=> raised # Ok
             /\ c.exc = raised
             /\ c.calls[Len(c.calls)] = "remove"
             /\ sessions'[c.thread] = FreshSession
             /\ \A u \in Threads \ {c.thread} : sessions'[u] = sessions[u]
             /\ \A m \in OpenMessages(c.thread) :
                  messages'[m].fate =
                    IF c.commit /\ raised = Ok THEN "committed"
                    ELSE "rolled_back"
             /\ (redis' # redis) => (c.commit /\ raised = Ok)]_vars

\* A block that asked for a commit queued a message and its commit raised:
\* the message was rolled back and not published, the exception of the
\* commit left the block, and the Session was removed.
C29_Witness ==
  /\ last.op = "sessions_scope"
  /\ last.calls = <<"commit", "rollback", "remove">>
  /\ last.exc = ErrOperational
  /\ sessions[last.thread] = FreshSession
  /\ \E m \in DOMAIN messages : /\ messages[m].thread = last.thread
                                /\ messages[m].exc = Ok
                                /\ messages[m].fate = "rolled_back"
                                /\ Published(m) = 0

\* --------------------------------------------------- serialized functions
\* The thread that calls serialized functions.
Workers == {"t1"}

NextSerialized ==
  \/ \E t \in Workers : SerializedCall(t)
  \/ \E t \in Workers : SerializedBegin(t)
  \/ \E t \in Workers : QueueMessage(t, "a")
  \/ \E t \in Workers, o \in Outcomes : SerializedEnd(t, o)
  \/ \E t \in Workers : SerializedExhausted(t)
  \/ \E t \in Workers : SerializedReturn(t)

SpecSerialized == Init /\ [][NextSerialized]_vars

\* The step is one of the wrapper in thread t.
WrapperStep(t) == wrapped'[t] # wrapped[t]

\* C18: when the loop of the wrapper is left because no attempt remains
\* (every one of the 100 attempts failed with a serialization conflict), the
\* wrapper raises the fatal error; the wrapper returns only when an attempt
\* has committed.
C18_ExhaustedRaises ==
  [][\A t \in Workers :
       /\ (WrapperStep(t) /\ wrapped[t].pc = "loop" /\ wrapped[t].attempts = 0)
            => /\ wrapped[t].runs = SerializedAttempts
               /\ wrapped'[t].pc = "raised"
               /\ wrapped'[t].exc = ErrFatal
       /\ (WrapperStep(t) /\ wrapped'[t].pc = "returned")
            => wrapped'[t].commits >= 1]_vars

\* C19: an attempt that ends with a serialization conflict, raised by the
\* function or by the commit, commits and publishes nothing, leaves a fresh
\* session and costs one attempt; while attempts remain, the next step of
\* the wrapper runs the function again in a transaction that has just
\* begun.  An attempt that commits makes the wrapper return the result of
\* that attempt, and it is the only attempt of the call that committed.
C19_RetryThenCommitOnce ==
  [][\A t \in Workers :
       /\ (WrapperStep(t) /\ wrapped[t].pc = "func"
             /\ IsConflict(wrapped'[t].outcome))
            => /\ wrapped'[t].pc = "loop"
               /\ wrapped'[t].attempts = wrapped[t].attempts - 1
               /\ wrapped'[t].commits = wrapped[t].commits
               /\ wrapped'[t].runs = wrapped[t].runs
               /\ sessions'[t] = FreshSession
               /\ redis' = redis
       /\ (WrapperStep(t) /\ wrapped[t].pc = "loop" /\ wrapped[t].attempts > 0)
            => /\ wrapped'[t].pc = "func"
               /\ wrapped'[t].runs = wrapped[t].runs + 1
               /\ sessions'[t].begun
               /\ sessions'[t].outbox = <<>>
       /\ (WrapperStep(t) /\ wrapped[t].pc = "func"
             /\ wrapped'[t].outcome = "return")
            => /\ wrapped'[t].pc = "returned"
               /\ wrapped'[t].result = wrapped[t].runs
               /\ wrapped[t].commits = 0
               /\ wrapped'[t].commits = 1
       /\ (WrapperStep(t) /\ wrapped'[t].commits > wrapped[t].commits)
            => (wrapped'[t].pc = "returned" /\ wrapped'[t].commits = 1)]_vars

\* The third attempt committed, after two conflicts, and the wrapper
\* returned its result.
C19_Witness ==
  \E t \in Workers :
    /\ wrapped[t].pc = "returned"
    /\ wrapped[t].runs = 3
    /\ wrapped[t].result = 3
    /\ wrapped[t].commits = 1

\* C30: an attempt that ends with an exception that is no serialization
\* conflict (an OperationalError of another origin, or an exception of
\* another class) makes the wrapper raise that same exception: the session
\* is rolled back and removed, nothing is committed or published, and no
\* attempt is used up.  After raising, the wrapper takes no step but the
\* return to its caller, and the function is run a further time only after
\* an attempt that ended with a conflict.
C30_NonConflictNotRetried ==
  [][\A t \in Workers :
       /\ (WrapperStep(t) /\ wrapped[t].pc = "func"
             /\ wrapped'[t].outcome \in {"operational", "other"})
            => /\ wrapped'[t].pc = "raised"
               /\ wrapped'[t].exc = IF wrapped'[t].outcome = "operational"
                                      THEN ErrOperational ELSE ErrOther
               /\ wrapped'[t].runs = wrapped[t].runs
               /\ wrapped'[t].commits = wrapped[t].commits
               /\ wrapped'[t].attempts = wrapped[t].attempts
               /\ sessions'[t] = FreshSession
               /\ redis' = redis
               /\ \A m \in OpenMessages(t) : messages'[m].fate = "rolled_back"
       /\ (WrapperStep(t) /\ wrapped[t].pc = "raised")
            => wrapped'[t].pc = "idle"
       /\ (WrapperStep(t) /\ wrapped'[t].runs > wrapped[t].runs
             /\ wrapped[t].runs >= 1)
            => IsConflict(wrapped[t].outcome)]_vars

\* The second attempt, after one conflict, queued a message and ended with
\* an OperationalError that was no conflict: the wrapper raised it, and the
\* message was rolled back and not published.
C30_Witness ==
  \E t \in Workers :
    /\ wrapped[t].pc = "raised"
    /\ wrapped[t].outcome = "operational"
    /\ wrapped[t].exc = ErrOperational
    /\ wrapped[t].runs = 2
    /\ wrapped[t].commits = 0
    /\ \E m \in DOMAIN messages : /\ messages[m].thread = t
                                  /\ messages[m].exc = Ok
                                  /\ messages[m].fate = "rolled_back"
                                  /\ Published(m) = 0

\* C31: in every state of a call of the wrapper the function has been run
\* at most 100 times, and the runs made and the attempts left add up to
\* 100 (a run in progress has not yet cost its attempt): every conflict
\* brings the loop one step nearer to its end, whatever the order of
\* conflicts raised by the function and by the commit.
C31_AtMostHundredRuns ==
  \A t \in Workers :
    /\ wrapped[t].runs <= SerializedAttempts
    /\ wrapped[t].pc = "loop"
         => wrapped[t].runs + wrapped[t].attempts = SerializedAttempts
    /\ wrapped[t].pc = "func"
         => /\ wrapped[t].attempts > 0
            /\ wrapped[t].runs + wrapped[t].attempts = SerializedAttempts + 1

\* The hundredth run of the function, after 99 conflicts, has ended with a
\* conflict as well: no attempt is left.
C31_Witness ==
  \E t \in Workers :
    /\ wrapped[t].pc = "loop"
    /\ wrapped[t].runs = SerializedAttempts
    /\ wrapped[t].attempts = 0
    /\ IsConflict(wrapped[t].outcome)

\* The messages queue_message accepted in the open transaction of thread t.
QueuedInAttempt(t) == {m \in OpenMessages(t) : messages[m].exc = Ok}

\* C36: when an attempt of a serialized call ends without a commit, the
\* messages queued in it are rolled back and nothing is published; when an
\* attempt commits, every message queued in it is published exactly once
\* and no other message is published, so the messages of the earlier
\* attempts of the call stay unpublished.
C36_OnlyCommittedAttemptPublishes ==
  [][\A t \in Workers :
       (WrapperStep(t) /\ wrapped[t].pc = "func")
         => IF wrapped'[t].outcome = "return"
              THEN /\ \A m \in QueuedInAttempt(t) :
                        /\ messages'[m].fate = "committed"
                        /\ PublishedIn(redis, m) = 0
                        /\ PublishedIn(redis', m) = 1
                   /\ \A m \in DOMAIN messages \ QueuedInAttempt(t) :
                        PublishedIn(redis', m) = PublishedIn(redis, m)
              ELSE /\ \A m \in QueuedInAttempt(t) :
                        messages'[m].fate = "rolled_back"
                   /\ redis' = redis
                   /\ sessions'[t] = FreshSession]_vars

\* The first attempt queued a message and ended in a conflict; the second
\* queued another and committed: only the second message was published.
C36_Witness ==
  \E t \in Workers :
    /\ wrapped[t].pc = "returned"
    /\ wrapped[t].runs = 2
    /\ Len(messages) = 2
    /\ messages[1].fate = "rolled_back" /\ Published(1) = 0
    /\ messages[2].fate = "committed" /\ Published(2) = 1
    /\ \A m \in DOMAIN messages : messages[m].thread = t /\ messages[m].exc = Ok

\* -------------------------------------------- concurrent receive_all
NextConcurrent ==
  \/ last = Idle /\ \E o \in Sources : CreateInfo(o, 1)
  \/ last = Idle /\ \E i \in InfoIds, d \in NodeIds :
       nodes[d].custom /\ CreateTransmission(i, d)
  \/ Return
  \/ \E t \in Threads, n \in NodeIds :
       nodes[n].custom /\ SerializedReceiveAllCall(t, n)
  \/ \E t \in Threads : SerializedReceiveAllBegin(t)
  \/ \E t \in Threads : SerializedReceiveAllEnd(t)
  \/ \E t \in Threads : SerializedReceiveAllReturn(t)

SpecConcurrent == Init /\ [][NextConcurrent]_vars

\* C37: with receive_all called only inside serialized transactions, by two
\* threads in any interleaving, no Transmission has been given to update by
\* two calls that committed, a Transmission has a receive time exactly when
\* one committed call gave it to update, and when a call has returned after
\* its commit, every Transmission that was pending for its node when it was
\* called has been stamped and given to update by exactly one committed
\* call, this one or the other thread's.
C37_OneCommittedDelivery ==
  /\ \A r \in TransIds :
       /\ transmissions[r].delivered <= 1
       /\ (transmissions[r].delivered = 1)
            <=> (transmissions[r].receive_time # None)
  /\ \A t \in Threads :
       (wrapped[t].pc = "returned" /\ wrapped[t].commits = 1
          /\ txns[t].node # None)
         => \A r \in txns[t].start : /\ transmissions[r].delivered = 1
                                     /\ transmissions[r].receive_time # None

\* Two calls for the same node had both read the same pending Transmission;
\* one committed, the other met the conflict, ran again, found nothing
\* pending and committed on its second run.
C37_Witness ==
  \E t, u \in Threads :
    /\ t # u
    /\ txns[t].node = txns[u].node
    /\ txns[t].start # {}
    /\ txns[t].start = txns[u].start
    /\ wrapped[t].pc = "returned" /\ wrapped[t].runs = 1
    /\ wrapped[u].pc = "returned" /\ wrapped[u].runs = 2
    /\ wrapped[u].outcome = "return"
    /\ \A r \in txns[t].start : transmissions[r].delivered = 1

\* --------------------------------------------------------- every operation
Next ==
  \/ last = Idle /\ \E o \in NodeIds, c \in Texts \cup {None} : CreateInfo(o, c)
  \/ last = Idle /\ \E i \in InfoIds, v \in Texts \cup {None} : SetContents(i, v)
  \/ last = Idle /\ \E a, b \in NodeIds : ConnectTo(a, b)
  \/ last = Idle /\ \E a, b \in NodeIds : ConnectFrom(a, b)
  \/ last = Idle /\ \E a \in NodeIds, w \in WhatArgs, t \in ToWhomArgs :
       \E wh \in WhatHooks(a, w), th \in ToWhomHooks(a, t) :
         Transmit(a, w, t, wh, th)
  \/ last = Idle /\ \E i \in InfoIds, d \in NodeIds : CreateTransmission(i, d)
  \/ last = Idle /\ \E n \in NodeIds : ReceiveAll(n)
  \/ last = Idle /\ \E n \in NodeIds : Kill(n)
  \/ last = Idle /\ \E n \in NodeIds : Fail(n)
  \/ last = Idle /\ \E v \in VectorIds : VectorKill(v)
  \/ last = Idle /\ \E net \in Networks, a \in NetworkNodes("Agent") :
       AddAgent(net, a)
  \/ last = Idle /\ \E net \in Networks, s \in NetworkNodes("Source") :
       AddSourceGlobal(net, s)
  \/ last = Idle /\ \E net \in Networks, s \in NetworkNodes("Source"),
                       a \in NetworkNodes("Agent") : AddSourceLocal(net, s, a)
  \/ last = Idle /\ \E net \in Networks : GetDegrees(net)
  \/ last = Idle /\ \E ty \in InfoTypes, o \in NodeIds, c \in Texts \cup {None} :
       CreateInfoOf(ty, o, c)
  \/ last = Idle /\ \E a \in NodeIds, i \in InfoIds :
       nodes[a].type = "Agent" /\ Replicate(a, i)
  \/ Tick
  \/ Return
  \/ \E t \in Threads : SessionConnection(t)
  \/ \E t \in Threads, ch \in Channels : QueueMessage(t, ch)
  \/ \E t \in Threads : Commit(t)
  \/ \E t \in Threads : Rollback(t)
  \/ \E t \in Threads : Remove(t)
  \/ \E t \in Threads, commit \in BOOLEAN, body \in BodyEnds,
        commit_exc \in CommitEnds : SessionsScope(t, commit, body, commit_exc)
  \/ \E t \in Threads, body \in BodyEnds : ScopedSessionDecorator(t, body)
  \/ \E t \in Threads : txns[t] = NoTxn /\ SerializedCall(t)
  \/ \E t \in Threads : txns[t] = NoTxn /\ SerializedBegin(t)
  \/ \E t \in Threads, o \in Outcomes :
       txns[t] = NoTxn /\ SerializedEnd(t, o)
  \/ \E t \in Threads : txns[t] = NoTxn /\ SerializedExhausted(t)
  \/ \E t \in Threads : txns[t] = NoTxn /\ SerializedReturn(t)
  \/ \E t \in Threads, n \in NodeIds : SerializedReceiveAllCall(t, n)
  \/ \E t \in Threads : SerializedReceiveAllBegin(t)
  \/ \E t \in Threads : SerializedReceiveAllEnd(t)
  \/ \E t \in Threads : SerializedReceiveAllReturn(t)

Spec == Init /\ [][Next]_vars

====
